---- MODULE Spec2Model ----
(***************************************************************************)
(* Model of the SwitcherLabs Go client (src/switcherlabs.go): the three    *)
(* typed flag entry points BoolFlag / NumberFlag / StringFlag, the state   *)
(* refresh (refreshState) and the identity cache (fetchIdentity).          *)
(*                                                                         *)
(* Every call of a typed entry point is a frame on the calling thread's    *)
(* stack; a dynamic rule pushes a nested frame for the referenced flag.    *)
(* The two remote calls (/sdk/initialize and /sdk/identities/<id>) block,  *)
(* so each is split into the step that issues it and the step that takes   *)
(* its outcome; the clock may advance between any two steps.               *)
(***************************************************************************)
EXTENDS Integers, Sequences, FiniteSets, TLC

(* ---------------------------------------------------------------------- *)
(* Program constants                                                       *)
(* ---------------------------------------------------------------------- *)
typeBoolean == "boolean"
typeNumber == "number"
typeString == "string"
Types == {typeBoolean, typeNumber, typeString}

\* seconds
stateRefreshRate == 60
identityRefreshRate == 5

ErrFlagNotFound == "ErrFlagNotFound"
ErrInvalidFlagType == "ErrInvalidFlagType"
\* the error a remote call hands back (an *Error of the API or a decoding error)
ErrRemote == "ErrRemote"
NoErr == "nil"

\* time.Time{}: the zero instant, long before any reading of the clock
ZeroTime == 0

(* ---------------------------------------------------------------------- *)
(* Bounds of the model                                                     *)
(* ---------------------------------------------------------------------- *)
\* the clock reading when the client is constructed (seconds after ZeroTime)
StartTime == 100
\* dynamic rules per flag
MaxRules == 2
\* typed entry points nested in one another on one goroutine's stack
MaxDepth == 4
\* the clock is read at these many seconds after StartTime: on both sides of,
\* and exactly at, the end of an identity's window and of the state's window
Offsets ==
    {0, identityRefreshRate, 2 * identityRefreshRate,
     stateRefreshRate - identityRefreshRate, stateRefreshRate,
     stateRefreshRate + identityRefreshRate}
\* a run during which the clock is not seen to advance, and one that outlasts
\* a refresh window
ShortRun == {0}
LongRun == Offsets

(* ---------------------------------------------------------------------- *)
(* Values: interface{} holding a JSON bool, number or string, or nil       *)
(* ---------------------------------------------------------------------- *)
Bool(x) == [t |-> typeBoolean, b |-> x, n |-> 0, s |-> <<>>]
Num(x) == [t |-> typeNumber, b |-> FALSE, n |-> x, s |-> <<>>]
Str(x) == [t |-> typeString, b |-> FALSE, n |-> 0, s |-> x]
Nil == [t |-> "nil", b |-> FALSE, n |-> 0, s |-> <<>>]

\* the zero value of the Go type behind a flag type: false, 0, ""
Zero(T) ==
    IF T = typeBoolean THEN Bool(FALSE)
    ELSE IF T = typeNumber THEN Num(0)
    ELSE Str(<<>>)

\* val.(bool), val.(float64), val.(string): succeeds iff the dynamic type is T
Asserts(v, T) == v.t = T

\* Go's < on strings: bytewise lexicographic; strings are sequences of bytes
RECURSIVE StrLess(_, _)
StrLess(a, b) ==
    IF b = <<>> THEN FALSE
    ELSE IF a = <<>> THEN TRUE
    ELSE IF Head(a) < Head(b) THEN TRUE
    ELSE IF Head(a) > Head(b) THEN FALSE
    ELSE StrLess(Tail(a), Tail(b))

BoolOpNames == {"==", "!="}
OrderOpNames == {"==", "!=", "<", "<=", ">", ">="}

boolOperations(op, a, b) ==
    IF op = "==" THEN a = b ELSE a # b

numberOperations(op, a, b) ==
    CASE op = "==" -> a = b
      [] op = "!=" -> a # b
      [] op = "<" -> a < b
      [] op = "<=" -> a <= b
      [] op = ">" -> a > b
      [] op = ">=" -> a >= b

stringOperations(op, a, b) ==
    CASE op = "==" -> a = b
      [] op = "!=" -> a # b
      [] op = "<" -> StrLess(a, b)
      [] op = "<=" -> ~StrLess(b, a)
      [] op = ">" -> StrLess(b, a)
      [] op = ">=" -> ~StrLess(a, b)

\* the operators a table holds for a flag type
OpNames(T) == IF T = typeBoolean THEN BoolOpNames ELSE OrderOpNames

\* table[op](flagValue, ruleExpressionValue) for a referenced flag of type T
Compare(T, op, a, b) ==
    IF T = typeBoolean THEN boolOperations(op, a.b, b.b)
    ELSE IF T = typeNumber THEN numberOperations(op, a.n, b.n)
    ELSE stringOperations(op, a.s, b.s)

(* ---------------------------------------------------------------------- *)
(* Data of the service: flags, overrides, identities                       *)
(* ---------------------------------------------------------------------- *)
Keys == {"a", "b"}
\* the one subject of the model; "" is the call without a subject
Identifiers == {"u"}

\* the i-th value of a type, so that the default, the overrides and the rule
\* results of a flag are told apart wherever the type has enough values
StrPool == << <<1>>, <<1, 2>>, <<2>>, <<2, 1>>, <<3>>, <<3, 1>>, <<3, 2>> >>
V(T, i) ==
    IF T = typeBoolean THEN Bool(i % 2 = 1)
    ELSE IF T = typeNumber THEN Num(i)
    ELSE Str(StrPool[i])
\* a flag's default is its 1st value, its global override the 2nd, its identity
\* override the 3rd, the result of its i-th rule the (3+i)-th
DefaultOf(T) == V(T, 1)
GlobalOf(T) == V(T, 2)
IdentityOf(T) == V(T, 3)
ResultOf(T, i) == V(T, 3 + i)

\* flag{}: the record behind a nil *flag, and the frame that has no flag yet
NoFlag == [ID |-> 0, Key |-> "", Type |-> "", Value |-> Nil, DynamicRules |-> <<>>]
NoIdentity == [Identifier |-> "", Overrides |-> <<>>, fetchedAt |-> ZeroTime]

Rule(id, op, cmp, val) ==
    [Expression |-> [FlagID |-> id, Op |-> op, Value |-> cmp], Value |-> val]

\* map[string]...: a function on the keys present; the nil map has none
EmptyMap == [k \in {} |-> Nil]
Has(m, k) == k \in DOMAIN m

(* The service's data. Flag "a" (id 1) may carry dynamic rules on flag "b"  *)
(* (id 2); every stored value has the type its flag declares, as the        *)
(* service guarantees (comment at src/switcherlabs.go:155-158).             *)
\* one (operator, comparison value) per operator of the referenced type
FirstRuleMenu(tb) ==
    IF tb = typeBoolean THEN {<<"==", 1>>, <<"!=", 1>>}
    ELSE {<<"==", 1>>, <<"!=", 1>>, <<"<", 2>>, <<"<=", 1>>, <<">", 1>>, <<">=", 2>>}
NextRuleMenu == {<<"==", 1>>, <<"!=", 1>>}

RuleLists(ta, tb) ==
    UNION { { [i \in 1..n |->
                 Rule(2, sel[i][1], V(tb, sel[i][2]), ResultOf(ta, i))] :
              sel \in { q \in [1..n -> FirstRuleMenu(tb) \cup NextRuleMenu] :
                          \A i \in 2..n : q[i] \in NextRuleMenu } } :
            n \in 0..MaxRules }

RECURSIVE SetToSeq(_)
SetToSeq(S) ==
    IF S = {} THEN <<>>
    ELSE LET x == CHOOSE y \in S : TRUE IN <<x>> \o SetToSeq(S \ {x})

Service(ta, tb, rules, ovKeys, idKeys) ==
    LET typeOf(k) == IF k = "a" THEN ta ELSE tb IN
    [flags |-> << [ID |-> 1, Key |-> "a", Type |-> ta, Value |-> DefaultOf(ta),
                   DynamicRules |-> rules],
                  [ID |-> 2, Key |-> "b", Type |-> tb, Value |-> DefaultOf(tb),
                   DynamicRules |-> <<>>] >>,
     overrides |-> [i \in 1..Cardinality(ovKeys) |->
                      [Key |-> SetToSeq(ovKeys)[i],
                       Value |-> GlobalOf(typeOf(SetToSeq(ovKeys)[i]))]],
     identities |-> [u \in Identifiers |->
                      [Identifier |-> u,
                       Overrides |-> [k \in idKeys |-> IdentityOf(typeOf(k))]]]]

\* services that vary the rules of "a"
RuleServices ==
    UNION { { Service(ta, tb, rules, {}, {}) : rules \in RuleLists(ta, tb) } :
            ta \in Types, tb \in Types }

\* services that vary the overrides
OverrideServices ==
    UNION { { Service(ta, tb, rules, ov, id) :
                rules \in { r \in RuleLists(ta, tb) :
                             Len(r) = 0 \/ (Len(r) = 1 /\ r[1].Expression.Op = "==") },
                ov \in SUBSET Keys, id \in {{}, {"a"}, Keys} } :
            ta \in Types, tb \in Types }

Services == RuleServices \cup OverrideServices

\* the services used to study the refresh windows
TimedServices ==
    { Service(typeNumber, typeString, rules, {}, {"b"}) :
        rules \in { r \in RuleLists(typeNumber, typeString) :
                      Len(r) = 1 /\ r[1].Expression.Op = "==" } }

(* Data the client is not written for: values whose JSON type is not the    *)
(* flag's, operators no table holds, rules on an id no flag has, flag types *)
(* the client does not know, identities answered under another identifier,  *)
(* and rules that refer to each other in a cycle.                           *)
\* a value of another JSON type than T
Bad(T) == IF T = typeString THEN Num(7) ELSE Str(<<7>>)
\* an operator name no table holds for T
BadOp(T) == IF T = typeBoolean THEN "<" ELSE "=~"

\* flag "a" with one rule: "b" equals its default
OneRule(ta, tb) == <<Rule(2, "==", DefaultOf(tb), ResultOf(ta, 1))>>

IllTypedServices ==
    UNION { { [Service(ta, tb, <<>>, {}, {}) EXCEPT !.flags[1].Value = Bad(ta)],
              [Service(ta, tb, <<>>, {"a"}, {}) EXCEPT !.overrides[1].Value = Bad(ta)],
              [Service(ta, tb, <<>>, {}, {"a"}) EXCEPT
                  !.identities["u"].Overrides["a"] = Bad(ta)],
              [Service(ta, tb, OneRule(ta, tb), {}, {}) EXCEPT
                  !.flags[1].DynamicRules[1].Value = Bad(ta)],
              [Service(ta, tb, OneRule(ta, tb), {}, {}) EXCEPT
                  !.flags[1].DynamicRules[1].Expression.Value = Bad(tb)],
              [Service(ta, tb, OneRule(ta, tb), {}, {}) EXCEPT
                  !.flags[1].DynamicRules[1].Expression.Op = BadOp(tb)],
              [Service(ta, tb, OneRule(ta, tb), {}, {}) EXCEPT
                  !.flags[1].DynamicRules[1].Expression.FlagID = 3],
              [Service(ta, tb, OneRule(ta, tb), {}, {}) EXCEPT
                  !.flags[2].Type = "json"],
              [Service(ta, tb, OneRule(ta, tb), {}, {}) EXCEPT
                  !.flags[2].Value = Bad(tb)] } :
            ta \in Types, tb \in {typeBoolean, typeNumber} }

\* the record answered for "u" names another identifier, or none
MisnamedIdentityServices ==
    UNION { { [Service(ta, typeString, OneRule(ta, typeString), {}, id) EXCEPT
                  !.identities["u"].Identifier = other] :
              other \in {"v", ""}, id \in {{}, {"b"}} } :
            ta \in {typeBoolean, typeNumber} }

\* "a" has a rule on "b" and "b" a rule on "a"; or "a" has a rule on itself
CyclicServices ==
    UNION { { [Service(ta, tb, OneRule(ta, tb), ov, id) EXCEPT
                  !.flags[2].DynamicRules =
                      <<Rule(1, "==", DefaultOf(ta), ResultOf(tb, 1))>>],
              [Service(ta, tb, OneRule(ta, tb), ov, id) EXCEPT
                  !.flags[1].DynamicRules =
                      <<Rule(1, "==", DefaultOf(ta), ResultOf(ta, 1))>>] } :
            ta \in {typeBoolean, typeNumber}, tb \in {typeNumber, typeString},
            ov \in {{}, {"b"}}, id \in {{}, {"b"}} }

BadServices == IllTypedServices \cup MisnamedIdentityServices \cup CyclicServices

(* A service whose data is edited while the client runs.                   *)
DriftServices ==
    { Service(typeNumber, tb, OneRule(typeNumber, tb), {}, {}) :
        tb \in {typeBoolean, typeString} }

\* the edit: both flags get another default and "a" a global override
Edited(s) ==
    [s EXCEPT !.flags[1].Value = V(s.flags[1].Type, 6),
              !.flags[2].Value = V(s.flags[2].Type, 6),
              !.overrides = <<[Key |-> "a", Value |-> GlobalOf(s.flags[1].Type)]>>]

\* the readings of the clock one refresh window apart
RefreshRun == {0, 60}

\* the readings of the clock within one identity window
WindowRun == {0, 5}

Threads == {1, 2}

(* ---------------------------------------------------------------------- *)
(* State                                                                   *)
(* ---------------------------------------------------------------------- *)
VARIABLES
    remote,       \* the service's data
    instants,     \* the readings of the clock during the run (after StartTime)
    asks,         \* the calls the application makes: <<type, key, identifier>>
    live,         \* the goroutines that call the client
    clock,        \* time.Now(), in seconds
    flags,        \* client.flags: key -> flag
    flagsByID,    \* client.flagsByID: id -> flag
    overrides,    \* client.overrides: key -> override
    identities,   \* client.identities: identifier -> identity
    lastRefresh,  \* client.lastRefresh
    stack,        \* per goroutine: the frames of its typed entry points
    ret,          \* per goroutine: what the entry point that returned last gave
    crashed       \* an unrecovered panic has ended the process

vars == <<remote, instants, asks, live, clock, flags, flagsByID, overrides, identities,
          lastRefresh, stack, ret, crashed>>

\* the keys a caller asks for; "c" is a key no snapshot holds
CallKeys == Keys \cup {"c"}
\* every call of a typed entry point the model knows
AllAsks == Types \X CallKeys \X (Identifiers \cup {""})

(* ---------------------------------------------------------------------- *)
(* Frames: one call of BoolFlag / NumberFlag / StringFlag                  *)
(* ---------------------------------------------------------------------- *)
\* typ/key/ident: the entry point and its FlagOptions; f, ref, ri: the locals
\* f, expressionFlag and the position of the range loop; now: refreshState's
\* now. The other fields record what the call did, for the properties:
\* t0 (lastRefresh as refreshState read it), refresh (what refreshState did),
\* idsrc/idrec/idAt (where fetchIdentity got the identity, which, and when it
\* consulted the cache), started (nested evaluations begun) and resolved (for
\* each that gave a value: the rule's position, the key resolved, the value).
\* resp is refreshState's decoded response and todo the fields of the client
\* it has still to assign, where these are steps of their own.
\* resp := &response{}
NoResponse == [flags |-> <<>>, overrides |-> <<>>]

NewFrame(T, key, ident) ==
    [typ |-> T, key |-> key, ident |-> ident, pc |-> "refresh",
     now |-> ZeroTime, t0 |-> ZeroTime, refresh |-> "none",
     f |-> NoFlag, ref |-> NoFlag, ri |-> 0,
     idsrc |-> "none", idrec |-> NoIdentity, idAt |-> ZeroTime,
     started |-> 0, resolved |-> <<>>,
     resp |-> NoResponse, todo |-> {}]

NoRet ==
    [kind |-> "none", val |-> Nil, err |-> NoErr, src |-> "",
     frame |-> NewFrame("", "", "")]

Top(t) == stack[t][Len(stack[t])]
At(t, pc) == /\ t \in live
             /\ ~crashed
             /\ stack[t] # <<>>
             /\ Top(t).pc = pc

\* the frame on top of t's stack becomes fr
Goto(t, fr) ==
    /\ stack' = [stack EXCEPT ![t] = [@ EXCEPT ![Len(@)] = fr]]
    /\ ret' = [ret EXCEPT ![t] = NoRet]
    /\ crashed' = crashed

\* return val, err: the frame is popped and its caller sees the result
Return(t, fr, kind, val, err, src) ==
    /\ stack' = [stack EXCEPT ![t] = SubSeq(@, 1, Len(@) - 1)]
    /\ ret' = [ret EXCEPT ![t] =
                 [kind |-> kind, val |-> val, err |-> err, src |-> src, frame |-> fr]]
    /\ crashed' = crashed

\* a run-time panic nobody recovers: the process ends
Panic(t, fr, src) ==
    /\ stack' = [stack EXCEPT ![t] = <<>>]
    /\ ret' = [ret EXCEPT ![t] =
                 [kind |-> "panic", val |-> Nil, err |-> NoErr, src |-> src, frame |-> fr]]
    /\ crashed' = TRUE

\* return v.(T), nil
ReturnValue(t, fr, v, src) ==
    IF Asserts(v, fr.typ)
    THEN Return(t, fr, "value", v, NoErr, src)
    ELSE Panic(t, fr, src)

\* return <zero>, err
ReturnError(t, fr, err, src) ==
    Return(t, fr, "error", Zero(fr.typ), err, src)

client == <<flags, flagsByID, overrides, identities, lastRefresh>>
setup == <<remote, instants, asks, live>>

(* ---------------------------------------------------------------------- *)
(* NewClient                                                               *)
(* ---------------------------------------------------------------------- *)
NewClient ==
    /\ flags = EmptyMap
    /\ flagsByID = EmptyMap
    /\ overrides = EmptyMap
    /\ identities = EmptyMap
    /\ lastRefresh = ZeroTime
    /\ clock = StartTime
    /\ stack = [t \in Threads |-> <<>>]
    /\ ret = [t \in Threads |-> NoRet]
    /\ crashed = FALSE

\* one goroutine; the service varied while the clock stands, or a service with
\* one rule watched for longer than a refresh window
Init ==
    /\ NewClient
    /\ live = {1}
    /\ asks = AllAsks
    /\ \/ remote \in Services /\ instants = ShortRun
       \/ remote \in TimedServices /\ instants = LongRun

\* one goroutine, a service with data the client is not written for
InitBadData ==
    /\ NewClient
    /\ live = {1}
    /\ asks = AllAsks
    /\ remote \in BadServices
    /\ instants = WindowRun

\* one goroutine, a service that is edited once, a refresh window passing
InitDrift ==
    /\ NewClient
    /\ live = {1}
    /\ asks = AllAsks
    /\ remote \in DriftServices
    /\ instants = RefreshRun

\* two goroutines calling NumberFlag on "a" for the subject "u", a service that
\* is edited once
InitConc ==
    /\ NewClient
    /\ live = Threads
    /\ asks = {<<typeNumber, "a", "u">>}
    /\ remote = Service(typeNumber, typeString, OneRule(typeNumber, typeString), {}, {})
    /\ instants = WindowRun

(* ---------------------------------------------------------------------- *)
(* The service                                                             *)
(* ---------------------------------------------------------------------- *)
\* somebody edits the flags at the service
ServiceChange ==
    /\ ~crashed
    /\ remote \in DriftServices
    /\ remote' = Edited(remote)
    /\ UNCHANGED <<instants, asks, live, client, clock, stack, ret, crashed>>

(* ---------------------------------------------------------------------- *)
(* The clock                                                               *)
(* ---------------------------------------------------------------------- *)
Tick ==
    /\ ~crashed
    /\ \E d \in instants :
         /\ StartTime + d > clock
         /\ clock' = StartTime + d
    /\ UNCHANGED <<setup, client, stack, ret, crashed>>

(* ---------------------------------------------------------------------- *)
(* The typed entry points, called by the application                       *)
(* ---------------------------------------------------------------------- *)
Enter(t, T) ==
    /\ t \in live
    /\ ~crashed
    /\ stack[t] = <<>>
    /\ \E key \in CallKeys, ident \in Identifiers \cup {""} :
         /\ <<T, key, ident>> \in asks
         /\ stack' = [stack EXCEPT ![t] = <<NewFrame(T, key, ident)>>]
    /\ ret' = [ret EXCEPT ![t] = NoRet]
    /\ UNCHANGED <<setup, client, clock, crashed>>

BoolFlag(t) == Enter(t, typeBoolean)
NumberFlag(t) == Enter(t, typeNumber)
StringFlag(t) == Enter(t, typeString)

(* ---------------------------------------------------------------------- *)
(* refreshState                                                            *)
(* ---------------------------------------------------------------------- *)
\* refreshDue with a fault: the window ends one instant late (Before for After)
refreshDueStrict(last, now) == last + stateRefreshRate < now

\* !s.lastRefresh.Add(stateRefreshRate).After(now)
refreshDue(last, now) == ~(last + stateRefreshRate > now)

\* isStale with a fault: an entry is stale from the end of its window on
isStaleAtWindowEnd(i, now) == i.fetchedAt + identityRefreshRate <= now

\* i.fetchedAt.Add(identityRefreshRate).Before(time.Now())
isStale(i, now) == i.fetchedAt + identityRefreshRate < now

\* for _, f := range resp.Flags { flags[f.Key] = f; flagsByID[f.ID] = f }:
\* of the elements with one key (one id) the last one stays
lastWithKey(list, k) ==
    list[CHOOSE i \in DOMAIN list :
            /\ list[i].Key = k
            /\ \A j \in DOMAIN list : list[j].Key = k => j <= i]

lastWithID(list, id) ==
    list[CHOOSE i \in DOMAIN list :
            /\ list[i].ID = id
            /\ \A j \in DOMAIN list : list[j].ID = id => j <= i]

buildFlags(list) ==
    [k \in {list[i].Key : i \in DOMAIN list} |-> lastWithKey(list, k)]

buildFlagsByID(list) ==
    [k \in {list[i].ID : i \in DOMAIN list} |-> lastWithID(list, k)]

buildOverrides(list) ==
    [k \in {list[i].Key : i \in DOMAIN list} |-> lastWithKey(list, k)]

\* sweep with a fault: an entry at the very end of its window is deleted too
sweepAtWindowEnd(ids, now) ==
    [u \in {x \in DOMAIN ids : ids[x].fetchedAt + identityRefreshRate > now} |-> ids[u]]

\* for identifier, i := range s.identities { if i.isStale() { delete(...) } }
sweep(ids, now) ==
    [u \in {x \in DOMAIN ids : ~isStale(ids[x], now)} |-> ids[u]]

\* now := time.Now(); the state is still valid: return nil
RefreshSkip(t) ==
    /\ At(t, "refresh")
    /\ ~refreshDue(lastRefresh, clock)
    /\ Goto(t, [Top(t) EXCEPT !.pc = "lookup", !.now = clock, !.t0 = lastRefresh,
                              !.refresh = "skipped"])
    /\ UNCHANGED <<setup, client, clock>>

\* now := time.Now(); the state is due: s.call(GET /sdk/initialize) is issued
RefreshCall(t) ==
    /\ At(t, "refresh")
    /\ refreshDue(lastRefresh, clock)
    /\ Goto(t, [Top(t) EXCEPT !.pc = "fetching", !.now = clock, !.t0 = lastRefresh,
                              !.refresh = "due"])
    /\ UNCHANGED <<setup, client, clock>>

\* RefreshFail with a fault: lastRefresh is stamped although the call failed
RefreshFailStamped(t) ==
    /\ At(t, "fetching")
    /\ lastRefresh' = Top(t).now
    /\ Goto(t, [Top(t) EXCEPT !.pc = "lookup", !.refresh = "failed"])
    /\ UNCHANGED <<setup, flags, flagsByID, overrides, identities, clock>>

\* the call gives an error (status >= 400, or a body that does not decode):
\* refreshState returns it, and the entry point goes on without reading it
RefreshFail(t) ==
    /\ At(t, "fetching")
    /\ Goto(t, [Top(t) EXCEPT !.pc = "lookup", !.refresh = "failed"])
    /\ UNCHANGED <<setup, client, clock>>

\* HTTPClient.Do gives (nil, err): do reads res.StatusCode of the nil response
RefreshCrash(t) ==
    /\ At(t, "fetching")
    /\ Panic(t, [Top(t) EXCEPT !.refresh = "panic"], "refresh")
    /\ UNCHANGED <<setup, client, clock>>

\* s.mu: no goroutine is inside refreshState's s.mu.Lock() ... Unlock()
Unlocked ==
    ~\E u \in Threads : stack[u] # <<>> /\ stack[u][Len(stack[u])].pc = "locked"

\* the call succeeds: the maps are rebuilt and swapped in, the stale identities
\* deleted, lastRefresh = now. One step, as no other goroutine can tell.
RefreshInstall(t) ==
    /\ At(t, "fetching")
    /\ Unlocked
    /\ flags' = buildFlags(remote.flags)
    /\ flagsByID' = buildFlagsByID(remote.flags)
    /\ overrides' = buildOverrides(remote.overrides)
    /\ identities' = sweep(identities, clock)
    /\ lastRefresh' = Top(t).now
    /\ Goto(t, [Top(t) EXCEPT !.pc = "lookup", !.refresh = "ok"])
    /\ UNCHANGED <<setup, clock>>

(* The same with other goroutines about: the entry points read s.flags,     *)
(* s.flagsByID and s.overrides without s.mu, so each assignment under the   *)
(* lock is a step they can see, in whichever order the writes reach them.   *)
\* the call succeeds: resp is decoded and the three maps are built
RefreshReceive(t) ==
    /\ At(t, "fetching")
    /\ Goto(t, [Top(t) EXCEPT !.pc = "built",
                              !.resp = [flags |-> remote.flags,
                                        overrides |-> remote.overrides],
                              !.todo = {"flags", "flagsByID", "overrides"}])
    /\ UNCHANGED <<setup, client, clock>>

\* s.mu.Lock() before the first, then s.flags = flags, s.flagsByID = flagsByID,
\* s.overrides = overrides
RefreshWrite(t) ==
    /\ \/ At(t, "built") /\ Unlocked
       \/ At(t, "locked")
    /\ \E x \in Top(t).todo :
         /\ flags' = IF x = "flags" THEN buildFlags(Top(t).resp.flags) ELSE flags
         /\ flagsByID' = IF x = "flagsByID" THEN buildFlagsByID(Top(t).resp.flags)
                         ELSE flagsByID
         /\ overrides' = IF x = "overrides" THEN buildOverrides(Top(t).resp.overrides)
                         ELSE overrides
         /\ Goto(t, [Top(t) EXCEPT !.pc = "locked", !.todo = @ \ {x}])
    /\ UNCHANGED <<setup, identities, lastRefresh, clock>>

\* the sweep of the identities, s.lastRefresh = now, and the deferred Unlock
RefreshUnlock(t) ==
    /\ At(t, "locked")
    /\ Top(t).todo = {}
    /\ identities' = sweep(identities, clock)
    /\ lastRefresh' = Top(t).now
    /\ Goto(t, [Top(t) EXCEPT !.pc = "lookup", !.refresh = "ok"])
    /\ UNCHANGED <<setup, flags, flagsByID, overrides, clock>>

(* ---------------------------------------------------------------------- *)
(* The body of BoolFlag / NumberFlag / StringFlag                          *)
(* ---------------------------------------------------------------------- *)
\* lookupFlag with a fault: the check of the flag's type is missing
lookupFlagUntyped(fl, key, T) ==
    IF ~Has(fl, key) THEN ErrFlagNotFound ELSE NoErr

\* lookupFlag with a fault: the two errors are exchanged
lookupFlagSwapped(fl, key, T) ==
    IF ~Has(fl, key) THEN ErrInvalidFlagType
    ELSE IF fl[key].Type # T THEN ErrFlagNotFound
    ELSE NoErr

\* f, ok := s.flags[opts.Key]; the two checks that follow
lookupFlag(fl, key, T) ==
    IF ~Has(fl, key) THEN ErrFlagNotFound
    ELSE IF fl[key].Type # T THEN ErrInvalidFlagType
    ELSE NoErr

Lookup(t) ==
    /\ At(t, "lookup")
    /\ LET fr == Top(t)
           err == lookupFlag(flags, fr.key, fr.typ) IN
       IF err = ErrFlagNotFound THEN ReturnError(t, fr, err, "notfound")
       ELSE IF err = ErrInvalidFlagType THEN ReturnError(t, fr, err, "badtype")
       ELSE Goto(t, [fr EXCEPT !.f = flags[fr.key],
                               !.pc = IF fr.ident # "" THEN "identity" ELSE "override"])
    /\ UNCHANGED <<setup, client, clock>>

\* if val, ok := i.Overrides[opts.Key]; ok { return val.(T), nil }
identityOverride(i, key) ==
    IF Has(i.Overrides, key) THEN i.Overrides[key] ELSE Nil

\* WithIdentity with a fault: the global override is consulted first
WithIdentityAfterGlobal(t, fr, i) ==
    IF Has(overrides, fr.key)
    THEN ReturnValue(t, fr, overrides[fr.key].Value, "override")
    ELSE IF Has(i.Overrides, fr.key)
    THEN ReturnValue(t, fr, identityOverride(i, fr.key), "identity")
    ELSE Goto(t, [fr EXCEPT !.pc = "override"])

\* the entry point has the identity i
WithIdentity(t, fr, i) ==
    IF Has(i.Overrides, fr.key)
    THEN ReturnValue(t, fr, identityOverride(i, fr.key), "identity")
    ELSE Goto(t, [fr EXCEPT !.pc = "override"])

\* fetchIdentity finds a fresh entry in the cache
cacheHit(ids, identifier, now) ==
    Has(ids, identifier) /\ ~isStale(ids[identifier], now)

IdentityHit(t) ==
    /\ At(t, "identity")
    /\ Unlocked
    /\ cacheHit(identities, Top(t).ident, clock)
    /\ LET i == identities[Top(t).ident] IN
       WithIdentity(t, [Top(t) EXCEPT !.idsrc = "cache", !.idrec = i, !.idAt = clock], i)
    /\ UNCHANGED <<setup, client, clock>>

\* no fresh entry: s.call(GET sdk/identities/<identifier>) is issued
IdentityCall(t) ==
    /\ At(t, "identity")
    /\ Unlocked
    /\ ~cacheHit(identities, Top(t).ident, clock)
    /\ Goto(t, [Top(t) EXCEPT !.pc = "idfetch", !.idAt = clock])
    /\ UNCHANGED <<setup, client, clock>>

\* identityError with a fault: BoolFlag returns the error as the other two do
identityErrorReturned(T) == ErrRemote

\* the call gives an error: fetchIdentity returns it; BoolFlag answers
\* (false, nil), NumberFlag and StringFlag return the error
identityError(T) ==
    IF T = typeBoolean THEN NoErr ELSE ErrRemote

IdentityFail(t) ==
    /\ At(t, "idfetch")
    /\ LET fr == [Top(t) EXCEPT !.idsrc = "failed"] IN
       IF identityError(fr.typ) = NoErr
       THEN Return(t, fr, "value", Bool(FALSE), NoErr, "iderror")
       ELSE ReturnError(t, fr, identityError(fr.typ), "iderror")
    /\ UNCHANGED <<setup, client, clock>>

\* HTTPClient.Do gives (nil, err): do reads res.StatusCode of the nil response
IdentityCrash(t) ==
    /\ At(t, "idfetch")
    /\ Panic(t, [Top(t) EXCEPT !.idsrc = "panic"], "identity")
    /\ UNCHANGED <<setup, client, clock>>

\* s.identities[newIdentity.Identifier] = newIdentity
storeIdentity(ids, identifier, i) ==
    [u \in DOMAIN ids \cup {i.Identifier} |-> IF u = i.Identifier THEN i ELSE ids[u]]

\* the call succeeds: the identity is stamped, cached and returned
IdentityStore(t) ==
    /\ At(t, "idfetch")
    /\ Unlocked
    /\ Top(t).ident \in DOMAIN remote.identities
    /\ LET got == remote.identities[Top(t).ident]
           i == [Identifier |-> got.Identifier, Overrides |-> got.Overrides,
                 fetchedAt |-> clock] IN
       /\ identities' = storeIdentity(identities, Top(t).ident, i)
       /\ WithIdentity(t, [Top(t) EXCEPT !.idsrc = "remote", !.idrec = i], i)
    /\ UNCHANGED <<setup, flags, flagsByID, overrides, lastRefresh, clock>>

\* if val, ok := s.overrides[opts.Key]; ok { return val.Value.(T), nil }
globalOverride(ov, key) ==
    IF Has(ov, key) THEN ov[key].Value ELSE Nil

\* Override with a fault: the rules are tried before the global override is read
OverrideAfterRules(t) ==
    /\ At(t, "override")
    /\ LET fr == Top(t) IN
       IF fr.f.DynamicRules = <<>> /\ Has(overrides, fr.key)
       THEN ReturnValue(t, fr, globalOverride(overrides, fr.key), "override")
       ELSE Goto(t, [fr EXCEPT !.pc = "rules", !.ri = 1])
    /\ UNCHANGED <<setup, client, clock>>

Override(t) ==
    /\ At(t, "override")
    /\ LET fr == Top(t) IN
       IF Has(overrides, fr.key)
       THEN ReturnValue(t, fr, globalOverride(overrides, fr.key), "override")
       ELSE Goto(t, [fr EXCEPT !.pc = "rules", !.ri = 1])
    /\ UNCHANGED <<setup, client, clock>>

\* nextRule with a fault: the loop runs from the last rule to the first
nextRuleReversed(f, ri) == f.DynamicRules[Len(f.DynamicRules) - ri + 1]

\* the rule the range loop takes next: the one at position ri
nextRule(f, ri) == f.DynamicRules[ri]

\* RuleCall with a fault: a rule on a flag that is being evaluated on this
\* stack is answered with an error
RuleCallDetecting(t) ==
    /\ At(t, "rules")
    /\ Top(t).ri <= Len(Top(t).f.DynamicRules)
    /\ Len(stack[t]) < MaxDepth
    /\ LET fr == Top(t)
           rule == nextRule(fr.f, fr.ri) IN
       IF ~Has(flagsByID, rule.Expression.FlagID)
       THEN Panic(t, fr, "rule")
       ELSE LET ref == flagsByID[rule.Expression.FlagID] IN
            IF ref.Type \notin Types
            THEN Goto(t, [fr EXCEPT !.ri = @ + 1])
            ELSE IF \E i \in DOMAIN stack[t] : stack[t][i].key = ref.Key
            THEN ReturnError(t, fr, ErrFlagNotFound, "ruleerror")
            ELSE /\ stack' = [stack EXCEPT ![t] =
                                [@ EXCEPT ![Len(@)] =
                                    [fr EXCEPT !.pc = "wait", !.ref = ref,
                                               !.started = @ + 1]]
                                \o <<NewFrame(ref.Type, ref.Key, fr.ident)>>]
                 /\ ret' = [ret EXCEPT ![t] = NoRet]
                 /\ crashed' = crashed
    /\ UNCHANGED <<setup, client, clock>>

\* one round of the loop begins: the referenced flag is looked up by id and
\* its own typed entry point is called with the same Identifier
RuleCall(t) ==
    /\ At(t, "rules")
    /\ Top(t).ri <= Len(Top(t).f.DynamicRules)
    /\ Len(stack[t]) < MaxDepth
    /\ LET fr == Top(t)
           rule == nextRule(fr.f, fr.ri) IN
       IF ~Has(flagsByID, rule.Expression.FlagID)
       THEN \* expressionFlag is nil: expressionFlag.Key
            Panic(t, fr, "rule")
       ELSE LET ref == flagsByID[rule.Expression.FlagID] IN
            IF ref.Type \notin Types
            THEN \* no case of the switch: the next rule
                 Goto(t, [fr EXCEPT !.ri = @ + 1])
            ELSE /\ stack' = [stack EXCEPT ![t] =
                                [@ EXCEPT ![Len(@)] =
                                    [fr EXCEPT !.pc = "wait", !.ref = ref,
                                               !.started = @ + 1]]
                                \o <<NewFrame(ref.Type, ref.Key, fr.ident)>>]
                 /\ ret' = [ret EXCEPT ![t] = NoRet]
                 /\ crashed' = crashed
    /\ UNCHANGED <<setup, client, clock>>

\* table[rule.Expression.Op](flagValue, rule.Expression.Value.(T))
ruleMatches(ref, rule, flagValue) ==
    Compare(ref.Type, rule.Expression.Op, flagValue, rule.Expression.Value)

\* the nested entry point has returned
RuleReturn(t) ==
    /\ At(t, "wait")
    /\ ret[t].kind # "none"
    /\ LET fr == [Top(t) EXCEPT !.resolved =
                     Append(@, [rule |-> Top(t).ri, key |-> ret[t].frame.key,
                                val |-> ret[t].val])]
           rule == nextRule(fr.f, fr.ri) IN
       IF ret[t].kind = "error"
       THEN ReturnError(t, Top(t), ret[t].err, "ruleerror")
       ELSE IF \/ ~Asserts(rule.Expression.Value, fr.ref.Type)
               \/ rule.Expression.Op \notin OpNames(fr.ref.Type)
       THEN Panic(t, fr, "rule")
       ELSE IF ruleMatches(fr.ref, rule, ret[t].val)
       THEN ReturnValue(t, fr, rule.Value, "rule")
       ELSE Goto(t, [fr EXCEPT !.pc = "rules", !.ri = @ + 1])
    /\ UNCHANGED <<setup, client, clock>>

\* Default with a fault: the zero value is returned for the stored default
DefaultZero(t) ==
    /\ At(t, "rules")
    /\ Top(t).ri > Len(Top(t).f.DynamicRules)
    /\ ReturnValue(t, Top(t), Zero(Top(t).typ), "default")
    /\ UNCHANGED <<setup, client, clock>>

\* the loop is over (or there was no rule): return f.Value.(T), nil
Default(t) ==
    /\ At(t, "rules")
    /\ Top(t).ri > Len(Top(t).f.DynamicRules)
    /\ ReturnValue(t, Top(t), Top(t).f.Value, "default")
    /\ UNCHANGED <<setup, client, clock>>

(* ---------------------------------------------------------------------- *)
(* Specification                                                           *)
(* ---------------------------------------------------------------------- *)
Next ==
    \/ Tick
    \/ \E t \in Threads :
         \/ BoolFlag(t)
         \/ NumberFlag(t)
         \/ StringFlag(t)
         \/ RefreshSkip(t)
         \/ RefreshCall(t)
         \/ RefreshFail(t)
         \/ RefreshCrash(t)
         \/ RefreshInstall(t)
         \/ Lookup(t)
         \/ IdentityHit(t)
         \/ IdentityCall(t)
         \/ IdentityFail(t)
         \/ IdentityCrash(t)
         \/ IdentityStore(t)
         \/ Override(t)
         \/ RuleCall(t)
         \/ RuleReturn(t)
         \/ Default(t)

Spec == Init /\ [][Next]_vars

SpecBadData == InitBadData /\ [][Next]_vars

\* one goroutine and a service that is edited
NextDrift ==
    \/ Next
    \/ ServiceChange

SpecDrift == InitDrift /\ [][NextDrift]_vars

\* several goroutines and a service that is edited
NextConc ==
    \/ Tick
    \/ ServiceChange
    \/ \E t \in Threads :
         \/ BoolFlag(t)
         \/ NumberFlag(t)
         \/ StringFlag(t)
         \/ RefreshSkip(t)
         \/ RefreshCall(t)
         \/ RefreshFail(t)
         \/ RefreshCrash(t)
         \/ RefreshReceive(t)
         \/ RefreshWrite(t)
         \/ RefreshUnlock(t)
         \/ Lookup(t)
         \/ IdentityHit(t)
         \/ IdentityCall(t)
         \/ IdentityFail(t)
         \/ IdentityCrash(t)
         \/ IdentityStore(t)
         \/ Override(t)
         \/ RuleCall(t)
         \/ RuleReturn(t)
         \/ Default(t)

SpecConc == InitConc /\ [][NextConc]_vars

(* ---------------------------------------------------------------------- *)
(* Properties                                                              *)
(* ---------------------------------------------------------------------- *)
\* the goroutines whose last entry point has returned to its caller
Returned == {t \in Threads : ret[t].kind \in {"value", "error"}}
\* the calls in progress
Active == UNION { {stack[t][i] : i \in DOMAIN stack[t]} : t \in Threads }
\* fetchIdentity gave the call an identity
GotIdentity(fr) == fr.idsrc \in {"cache", "remote"}
HasIdentityOverride(fr) == GotIdentity(fr) /\ Has(fr.idrec.Overrides, fr.key)
NoIdentityOverride(fr) ==
    \/ fr.ident = ""
    \/ GotIdentity(fr) /\ ~Has(fr.idrec.Overrides, fr.key)
\* the snapshot holds the call's key with the type of its entry point
FlagOfType(fr) == Has(flags, fr.key) /\ flags[fr.key].Type = fr.typ
\* the call is past the two checks of the flag
PastLookup(fr) == fr.pc \in {"identity", "idfetch", "override", "rules", "wait"}

\* C1: a call with a non-empty Identifier whose identity was obtained and holds
\* the key returns that identity override, with no error and no rule evaluated,
\* whatever the global override, the rules and the default are; and such a call
\* never goes on past the identity check.
C1_IdentityOverrideWins ==
    /\ \A t \in Returned :
         LET r == ret[t] IN
         HasIdentityOverride(r.frame) =>
            /\ r.frame.ident # ""
            /\ r.kind = "value"
            /\ r.err = NoErr
            /\ r.val = r.frame.idrec.Overrides[r.frame.key]
            /\ r.val = remote.identities[r.frame.ident].Overrides[r.frame.key]
            /\ r.frame.started = 0
    /\ \A fr \in Active : ~HasIdentityOverride(fr)

\* C1 witness: a NumberFlag call returned the identity override of a flag that
\* also has a global override and a dynamic rule.
C1_Witness ==
    \E t \in Returned :
        LET r == ret[t] IN
        /\ HasIdentityOverride(r.frame)
        /\ r.frame.typ = typeNumber
        /\ Has(overrides, r.frame.key)
        /\ r.frame.f.DynamicRules # <<>>
        /\ r.val = IdentityOf(typeNumber)

\* C2: a call on a flag of the requested type to which no identity override
\* applies, while the snapshot holds a global override for the key, returns the
\* global override's value with no error and no rule evaluated; and no such
\* call is ever found in the rule loop.
C2_GlobalOverrideWins ==
    /\ \A t \in Returned :
         LET r == ret[t] IN
         (FlagOfType(r.frame) /\ NoIdentityOverride(r.frame)
             /\ Has(overrides, r.frame.key)) =>
            /\ r.kind = "value"
            /\ r.err = NoErr
            /\ r.val = overrides[r.frame.key].Value
            /\ r.src = "override"
            /\ r.frame.started = 0
    /\ \A fr \in Active :
         fr.pc \in {"rules", "wait"} => ~Has(overrides, fr.key)

\* C2 witness: a StringFlag call without Identifier returned the global
\* override of a flag that has a dynamic rule.
C2_Witness ==
    \E t \in Returned :
        LET r == ret[t] IN
        /\ FlagOfType(r.frame)
        /\ r.frame.ident = ""
        /\ r.frame.typ = typeString
        /\ Has(overrides, r.frame.key)
        /\ flags[r.frame.key].DynamicRules # <<>>
        /\ r.val = GlobalOf(typeString)

\* the comparison of the j-th declared rule of the call's flag, on the value
\* the call resolved for it
RuleHolds(fr, j) ==
    LET rule == flags[fr.key].DynamicRules[j] IN
    Compare(flagsByID[rule.Expression.FlagID].Type, rule.Expression.Op,
            fr.resolved[j].val, rule.Expression.Value)

\* C3: when a call on a flag of the requested type, with no identity override
\* and no global override, returns a value, the rules it evaluated are the
\* declared ones in order, each on its own referenced flag; every rule before
\* the last evaluated one compared false; if the last evaluated one compared
\* true the call returns its result value (and evaluated nothing after it),
\* otherwise all rules were evaluated.
C3_FirstMatchingRule ==
    \A t \in Returned :
        LET r == ret[t]
            fr == r.frame
            n == Len(fr.resolved) IN
        (r.kind = "value" /\ FlagOfType(fr) /\ NoIdentityOverride(fr)
            /\ ~Has(overrides, fr.key)) =>
           LET rules == flags[fr.key].DynamicRules IN
           /\ fr.started = n
           /\ n <= Len(rules)
           /\ \A j \in 1..n :
                /\ fr.resolved[j].rule = j
                /\ fr.resolved[j].key = flagsByID[rules[j].Expression.FlagID].Key
           /\ \A j \in 1..(n - 1) : ~RuleHolds(fr, j)
           /\ IF n >= 1 /\ RuleHolds(fr, n)
              THEN r.val = rules[n].Value /\ r.src = "rule"
              ELSE n = Len(rules)

\* C3 witness: the first of two rules matched; the second was not evaluated.
C3_Witness ==
    \E t \in Returned :
        LET r == ret[t] IN
        /\ r.kind = "value"
        /\ r.src = "rule"
        /\ Len(r.frame.f.DynamicRules) = 2
        /\ r.frame.started = 1
        /\ r.val = r.frame.f.DynamicRules[1].Value

\* C4: a call on a flag of the requested type, with no identity override, no
\* global override, and every rule (if any) evaluated and compared false,
\* returns the flag's stored default value and no error.
C4_DefaultValue ==
    \A t \in Returned :
        LET r == ret[t]
            fr == r.frame IN
        (FlagOfType(fr) /\ NoIdentityOverride(fr) /\ ~Has(overrides, fr.key)
            /\ Len(fr.resolved) = Len(flags[fr.key].DynamicRules)
            /\ \A j \in 1..Len(fr.resolved) : ~RuleHolds(fr, j)) =>
           /\ r.kind = "value"
           /\ r.err = NoErr
           /\ r.val = flags[fr.key].Value

\* C4 witness: two rules were evaluated, none matched, the default came back.
C4_Witness ==
    \E t \in Returned :
        LET r == ret[t] IN
        /\ r.kind = "value"
        /\ FlagOfType(r.frame)
        /\ Len(flags[r.frame.key].DynamicRules) = 2
        /\ Len(r.frame.resolved) = 2
        /\ r.val = flags[r.frame.key].Value
        /\ r.src = "default"

\* C5: a call whose key holds a flag of another type than its entry point
\* returns ErrInvalidFlagType with the zero value, without having asked for
\* the identity; and no such call is ever found past the checks of the flag.
C5_InvalidFlagType ==
    /\ \A t \in Returned :
         LET r == ret[t] IN
         (Has(flags, r.frame.key) /\ flags[r.frame.key].Type # r.frame.typ) =>
            /\ r.kind = "error"
            /\ r.err = ErrInvalidFlagType
            /\ r.val = Zero(r.frame.typ)
            /\ r.frame.idsrc = "none"
            /\ r.frame.idAt = ZeroTime
    /\ \A fr \in Active :
         (Has(flags, fr.key) /\ flags[fr.key].Type # fr.typ) => ~PastLookup(fr)

\* C5 witness: ErrInvalidFlagType for a key that has a global override, an
\* identity override for the caller's subject, and a dynamic rule.
C5_Witness ==
    \E t \in Returned :
        LET r == ret[t] IN
        /\ r.err = ErrInvalidFlagType
        /\ r.frame.ident # ""
        /\ Has(overrides, r.frame.key)
        /\ Has(remote.identities[r.frame.ident].Overrides, r.frame.key)
        /\ flags[r.frame.key].DynamicRules # <<>>

\* C6: a call whose key is absent from the snapshot returns ErrFlagNotFound
\* with the zero value, without having asked for the identity; and no such
\* call is ever found past the checks of the flag.
C6_FlagNotFound ==
    /\ \A t \in Returned :
         LET r == ret[t] IN
         ~Has(flags, r.frame.key) =>
            /\ r.kind = "error"
            /\ r.err = ErrFlagNotFound
            /\ r.val = Zero(r.frame.typ)
            /\ r.frame.idsrc = "none"
            /\ r.frame.idAt = ZeroTime
    /\ \A fr \in Active : ~Has(flags, fr.key) => ~PastLookup(fr)

\* C6 witness: ErrFlagNotFound from a loaded snapshot, for a call that names
\* a subject.
C6_Witness ==
    \E t \in Returned :
        LET r == ret[t] IN
        /\ r.err = ErrFlagNotFound
        /\ flags # EmptyMap
        /\ r.frame.ident # ""
        /\ r.frame.refresh = "ok"

\* every call of an entry point the state still knows: in progress, or the
\* one a goroutine saw end last
AllFrames == Active \cup {ret[t].frame : t \in {u \in Threads : ret[u].kind # "none"}}
\* refreshState issued the remote call
Fetched(fr) == fr.refresh \in {"due", "ok", "failed", "panic"}

\* C7: a call whose refreshState read the clock at now and lastRefresh at t0
\* issued no remote call if now < t0 + 60s and issued one if now >= t0 + 60s;
\* and as long as no refresh has succeeded (lastRefresh is the zero time) no
\* call has skipped the remote call.
C7_RefreshWindow ==
    /\ \A fr \in AllFrames :
         fr.refresh # "none" =>
            /\ fr.now < fr.t0 + stateRefreshRate => fr.refresh = "skipped"
            /\ fr.now >= fr.t0 + stateRefreshRate => Fetched(fr)
    /\ lastRefresh = ZeroTime => \A fr \in AllFrames : fr.refresh # "skipped"

\* C7 witness: a refresh done exactly 60s after the one before it.
C7_Witness ==
    \E fr \in AllFrames :
        /\ fr.refresh = "ok"
        /\ fr.t0 # ZeroTime
        /\ fr.now = fr.t0 + stateRefreshRate

\* C8 as stated: an entry is served from the cache only at t < t0 + 5s, and a
\* request at t >= t0 + 5s goes to the service.
C8_AsStated ==
    /\ \A fr \in AllFrames :
         fr.idsrc = "cache" => fr.idAt < fr.idrec.fetchedAt + identityRefreshRate
    /\ \A fr \in Active :
         (fr.pc = "idfetch" /\ Has(identities, fr.ident)) =>
            fr.idAt >= identities[fr.ident].fetchedAt + identityRefreshRate

\* C8 amended: an entry cached under the requested identifier and fetched at
\* t0 is served without a remote call at every t <= t0 + 5s (the remote call
\* is being made only when the cache holds no entry, or one with t > t0 + 5s),
\* and the entry a call is served from the cache is never older than 5s.
C8_IdentityWindow ==
    /\ \A fr \in AllFrames :
         fr.idsrc = "cache" =>
            /\ fr.idAt <= fr.idrec.fetchedAt + identityRefreshRate
            /\ fr.idrec.Identifier = fr.ident
    /\ \A fr \in Active :
         (fr.pc = "idfetch" /\ Has(identities, fr.ident)) =>
            fr.idAt > identities[fr.ident].fetchedAt + identityRefreshRate

\* C8 witness: an entry served from the cache exactly 5s after it was fetched.
C8_Witness ==
    \E fr \in AllFrames :
        /\ fr.idsrc = "cache"
        /\ fr.idAt = fr.idrec.fetchedAt + identityRefreshRate

\* C9: a step in which a due refresh ends with an error leaves flags,
\* flagsByID, overrides, identities and lastRefresh as they were, and the
\* refresh is still due afterwards, so the next refreshState tries again.
C9_FailedRefreshKeepsState ==
    [][\A t \in Threads :
          (/\ stack[t] # <<>>
           /\ stack[t][Len(stack[t])].pc = "fetching"
           /\ stack'[t] # <<>>
           /\ stack'[t][Len(stack'[t])].refresh = "failed") =>
             /\ flags' = flags
             /\ flagsByID' = flagsByID
             /\ overrides' = overrides
             /\ identities' = identities
             /\ lastRefresh' = lastRefresh
             /\ lastRefresh' + stateRefreshRate <= clock']_vars

\* C9 witness: a refresh has just failed in a client that holds a snapshot
\* and a cached identity.
C9_Witness ==
    \E t \in Threads :
        /\ stack[t] # <<>>
        /\ Top(t).pc = "lookup"
        /\ Top(t).refresh = "failed"
        /\ flags # EmptyMap
        /\ identities # EmptyMap
        /\ lastRefresh # ZeroTime

\* C10: a call whose refresh failed returns that failure as its error.
C10_RefreshErrorReturned ==
    \A t \in Returned :
        ret[t].frame.refresh = "failed" =>
            ret[t].kind = "error" /\ ret[t].err = ErrRemote

\* C11: a call on a flag of the requested type, with a non-empty Identifier,
\* whose identity fetch gave an error ends there: NumberFlag and StringFlag
\* return that error with the zero value, BoolFlag returns false with no
\* error; no rule was evaluated, and no call goes on after a failed fetch.
C11_IdentityFetchFailure ==
    /\ \A t \in Threads :
         LET r == ret[t] IN
         (r.kind # "none" /\ r.frame.idsrc = "failed") =>
            /\ r.frame.ident # ""
            /\ r.frame.f.Type = r.frame.typ
            /\ r.frame.started = 0
            /\ r.src = "iderror"
            /\ IF r.frame.typ = typeBoolean
               THEN r.kind = "value" /\ r.val = Bool(FALSE) /\ r.err = NoErr
               ELSE r.kind = "error" /\ r.val = Zero(r.frame.typ) /\ r.err = ErrRemote
    /\ \A fr \in Active : fr.idsrc # "failed"

\* C11 witness: BoolFlag answered (false, nil) after a failed identity fetch,
\* for a flag whose default is true and which has a global override and a rule.
C11_Witness ==
    \E t \in Returned :
        LET r == ret[t] IN
        /\ r.frame.idsrc = "failed"
        /\ r.frame.typ = typeBoolean
        /\ r.kind = "value"
        /\ r.val = Bool(FALSE)
        /\ r.frame.f.Value = Bool(TRUE)
        /\ Has(overrides, r.frame.key)
        /\ r.frame.f.DynamicRules # <<>>

\* the service's data before the edit
Original(r) ==
    IF r \in DriftServices THEN r
    ELSE CHOOSE s \in DriftServices : Edited(s) = r
\* the snapshots the service can have delivered in this run
Snapshots == {Original(remote), Edited(Original(remote))}

\* what the call fr has read of the client's three maps is what the snapshot s
\* holds: its flag by key, the flag of its current rule by id, and no global
\* override for its key if it went on to the rules
Explains(s, fr) ==
    LET fl == buildFlags(s.flags)
        byID == buildFlagsByID(s.flags)
        ov == buildOverrides(s.overrides) IN
    /\ fr.f # NoFlag => Has(fl, fr.key) /\ fl[fr.key] = fr.f
    /\ fr.ref # NoFlag => Has(byID, fr.ref.ID) /\ byID[fr.ref.ID] = fr.ref
    /\ fr.pc \in {"rules", "wait"} => ~Has(ov, fr.key)

\* the same for a call that is over: a global override it returned is s's
ExplainsReturn(s, r) ==
    /\ Explains(s, r.frame)
    /\ r.src = "override" =>
          /\ Has(buildOverrides(s.overrides), r.frame.key)
          /\ r.val = buildOverrides(s.overrides)[r.frame.key].Value

\* C12: whatever the goroutines do, what one call of an entry point has read
\* of flags, flagsByID and overrides comes from one snapshot, as it must if
\* the reads are made under the shared lock and the swap under the exclusive.
C12_NoPartialUpdate ==
    /\ \A fr \in Active : \E s \in Snapshots : Explains(s, fr)
    /\ \A t \in Threads :
         ret[t].kind # "none" => \E s \in Snapshots : ExplainsReturn(s, ret[t])

\* C13: whatever data the service delivered (an operator that the table of the
\* referenced type does not hold, a stored value of another run-time type than
\* the flag's, a rule on an id no flag has), no call ends in a fatal fault of
\* the evaluation, and every value returned has the type of its entry point.
C13_NoCrashOnMalformedData ==
    \A t \in Threads :
        /\ ret[t].kind = "panic" =>
              ret[t].frame.refresh = "panic" \/ ret[t].frame.idsrc = "panic"
        /\ ret[t].kind = "value" => Asserts(ret[t].val, ret[t].frame.typ)

\* the nested entry point did not resolve its flag: it returned an error, or
\* its state refresh or its identity fetch gave one
NestedFailed(r) ==
    \/ r.kind = "error"
    \/ r.frame.refresh = "failed"
    \/ r.frame.idsrc = "failed"

\* C14: the entry point nested for a rule is the one of the referenced flag's
\* declared type, on that flag's key, with the Identifier of the outer call;
\* and when the nested call failed (flag not found, wrong type, identity or
\* state fetch failure) the outer call's next step returns an error to its own
\* caller, with no further rule tried.
C14_NestedFailureStops ==
    [][\A t \in Threads :
          (stack[t] # <<>> /\ stack[t][Len(stack[t])].pc = "wait"
              /\ ret[t].kind # "none" /\ stack'[t] # stack[t]) =>
             LET outer == stack[t][Len(stack[t])] IN
             /\ ret[t].frame.typ = outer.ref.Type
             /\ ret[t].frame.key = outer.ref.Key
             /\ ret[t].frame.ident = outer.ident
             /\ NestedFailed(ret[t]) =>
                   /\ Len(stack'[t]) = Len(stack[t]) - 1
                   /\ ret'[t].kind = "error"
                   /\ ret'[t].frame.key = outer.key]_vars

\* C15: the step that installs a refreshed snapshot (flags, flagsByID,
\* overrides and lastRefresh change in that same step) leaves in the identity
\* cache no entry with fetchedAt + 5s < now and keeps, unchanged, every entry
\* with fetchedAt + 5s >= now, adding none; a step of refreshState that skips
\* the refresh, issues the call, or ends with an error leaves the cache as it
\* was.
C15_RefreshSweepsIdentities ==
    [][\A t \in Threads :
          (/\ stack[t] # <<>>
           /\ stack[t][Len(stack[t])].pc \in {"refresh", "fetching"}
           /\ stack'[t] # <<>>
           /\ stack'[t] # stack[t]) =>
             IF stack'[t][Len(stack'[t])].refresh = "ok"
             THEN /\ lastRefresh' = stack[t][Len(stack[t])].now
                  /\ flags' = buildFlags(remote.flags)
                  /\ \A u \in DOMAIN identities' :
                        /\ ~(identities'[u].fetchedAt + identityRefreshRate < clock')
                        /\ u \in DOMAIN identities
                  /\ \A u \in DOMAIN identities :
                        identities[u].fetchedAt + identityRefreshRate >= clock' =>
                           u \in DOMAIN identities' /\ identities'[u] = identities[u]
             ELSE identities' = identities]_vars

\* C15 witness: a refresh done by a nested call has deleted the identity the
\* outer call had obtained more than 5s before.
C15_Witness ==
    \E t \in Threads :
        /\ Len(stack[t]) >= 2
        /\ Top(t).pc = "lookup"
        /\ Top(t).refresh = "ok"
        /\ GotIdentity(stack[t][Len(stack[t]) - 1])
        /\ stack[t][Len(stack[t]) - 1].idrec.fetchedAt + identityRefreshRate < clock
        /\ ~Has(identities, Top(t).ident)

\* the keys of the flags that the rules of flag k refer to
RefKeys(k) ==
    LET rules == flags[k].DynamicRules IN
    { flagsByID[rules[i].Expression.FlagID].Key :
        i \in {j \in DOMAIN rules : Has(flagsByID, rules[j].Expression.FlagID)} }

\* the keys reached from the keys S along at most n more references
RECURSIVE KeysReached(_, _)
KeysReached(S, n) ==
    IF n = 0 THEN S
    ELSE KeysReached(S \cup UNION {RefKeys(k) : k \in S \cap DOMAIN flags}, n - 1)

\* the rules lead from flag k back to flag k
OnCycle(k) ==
    Has(flags, k) /\ k \in KeysReached(RefKeys(k), Cardinality(DOMAIN flags))

\* a flag is being evaluated twice on the goroutine's stack
Reentered(t) ==
    \E i, j \in DOMAIN stack[t] : i < j /\ stack[t][i].key = stack[t][j].key

\* C16 as stated: no call on a flag of the requested type that lies on a cycle
\* of rules ever returns a value or an error.
C16_AsStated ==
    \A t \in Returned :
        FlagOfType(ret[t].frame) => ~OnCycle(ret[t].frame.key)

\* C16 amended: nothing detects a cycle: a rule that refers to a flag already
\* being evaluated on the stack starts that flag's entry point again, with the
\* same Identifier; and from then on (the snapshot and the cached identity
\* staying as they are) no call of the chain returns: the stack never gets
\* shorter, nothing is returned, nothing crashes.
C16_UnboundedRecursion ==
    [][\A t \in Threads :
          stack[t] # <<>> =>
             LET fr == stack[t][Len(stack[t])] IN
             /\ (/\ fr.pc = "rules"
                 /\ fr.ri <= Len(fr.f.DynamicRules)
                 /\ stack'[t] # stack[t]
                 /\ Has(flagsByID, fr.f.DynamicRules[fr.ri].Expression.FlagID)
                 /\ \E i \in DOMAIN stack[t] :
                       stack[t][i].key =
                          flagsByID[fr.f.DynamicRules[fr.ri].Expression.FlagID].Key) =>
                   LET ref == flagsByID[fr.f.DynamicRules[fr.ri].Expression.FlagID] IN
                   /\ Len(stack'[t]) = Len(stack[t]) + 1
                   /\ stack'[t][Len(stack'[t])] = NewFrame(ref.Type, ref.Key, fr.ident)
             /\ Reentered(t) =>
                   /\ Len(stack'[t]) >= Len(stack[t])
                   /\ ret'[t].kind = "none"
                   /\ ~crashed']_vars

\* C16 witness: the stack is as deep as the model lets it grow, with the same
\* entry point on the same key at the bottom and two frames further up.
C16_Witness ==
    \E t \in Threads :
        /\ Len(stack[t]) = MaxDepth
        /\ stack[t][1].key = stack[t][3].key
        /\ stack[t][1].typ = stack[t][3].typ
        /\ stack[t][1].ident = stack[t][3].ident
        /\ stack[t][1].ident # ""
        /\ OnCycle(stack[t][1].key)

\* C17: no remote call that fails ends in a fatal fault: a call of an entry
\* point that is over did not end in the remote call of its state refresh or
\* of its identity fetch, and the process is running.
C17_RemoteFailureIsAnError ==
    /\ \A t \in Threads :
         ret[t].kind = "panic" =>
            /\ ret[t].frame.refresh # "panic"
            /\ ret[t].frame.idsrc # "panic"
    /\ ~crashed

\* C18: lastRefresh never decreases; as lastRefresh is the `now` of the refresh
\* whose snapshot is installed, no refresh that began earlier replaces it.
C18_LastRefreshMonotonic ==
    [][lastRefresh' >= lastRefresh]_vars

\* C19: with one goroutine, all the frames of one top-level call (the nested
\* calls on its stack and the one that has just returned) have read the flags,
\* the id index and the overrides of one and the same snapshot.
C19_OneSnapshotPerCall ==
    \A t \in Threads :
        \E s \in Snapshots :
            /\ \A i \in DOMAIN stack[t] : Explains(s, stack[t][i])
            /\ ret[t].kind # "none" => ExplainsReturn(s, ret[t])

\* C20: an identity that fetchIdentity obtained from the service for the
\* requested identifier is in the cache under that identifier until the end of
\* its window, and within that window no call issues a remote call for the
\* same identifier again.
C20_CachedUnderRequested ==
    \A fr \in AllFrames :
        (fr.idsrc = "remote" /\ clock <= fr.idrec.fetchedAt + identityRefreshRate) =>
           /\ Has(identities, fr.ident)
           /\ identities[fr.ident] = fr.idrec
           /\ \A other \in Active :
                 (other.pc = "idfetch" /\ other.ident = fr.ident) =>
                    other.idAt < fr.idrec.fetchedAt

====
